---- MODULE Spec2Model ----
(***************************************************************************)
(* A model of mkrpki (src/src/main.rs): one run of the command line tool,  *)
(* from argument parsing to process exit, for each of the six subcommands  *)
(* key, ta, cer, crl, roa and mft.                                          *)
(*                                                                         *)
(* The environment (which files open, what they hold, whether the signer   *)
(* and the output file system succeed, what the clock says) is chosen      *)
(* nondeterministically at the step that consults it.                      *)
(***************************************************************************)
EXTENDS Integers, Sequences, FiniteSets, TLC

\* ------------------------------------------------------------------------
\* Bounds of the model.

\* Explicit times are 0..MaxTime (seconds on an abstract clock).
MaxTime == 2
\* Day counts are -1..MaxDays, and 30.
MaxDays == 1
\* Longest resource block list of one family.
MaxBlocks == 2
\* Longest list of well-formed ROA prefixes.
MaxPrefixes == 2
\* Longest list of manifest input files.
MaxFiles == 2

\* ------------------------------------------------------------------------
\* Option<T>: None is the empty tuple, Some(x) the one-element tuple.

None == <<>>
Some(x) == <<x>>
IsSome(o) == o # <<>>
Unwrap(o) == o[1]
Opt(S) == {None} \cup {Some(x) : x \in S}

\* All sequences over S of length at most n.
SeqUpTo(S, n) == UNION {[1..k -> S] : k \in 0..n}

\* ------------------------------------------------------------------------
\* Text. A string is a sequence of one-character strings.

DecDigits == <<"0", "1", "2", "3", "4", "5", "6", "7", "8", "9">>
\* The digits char::to_digit(16) takes: the letters in either case.
HexDigits == DecDigits \o <<"a", "b", "c", "d", "e", "f">>
                       \o <<"A", "B", "C", "D", "E", "F">>

IsDecDigit(c) == \E i \in 1..Len(DecDigits) : DecDigits[i] = c
IsHexDigit(c) == \E i \in 1..Len(HexDigits) : HexDigits[i] = c
DigitVal(c) ==
    LET i == CHOOSE j \in 1..Len(HexDigits) : HexDigits[j] = c
    IN  IF i > 16 THEN i - 7 ELSE i - 1

\* str::find(c): the index of the first c in s, 0 when there is none.
Find(s, c) ==
    IF \E i \in 1..Len(s) : s[i] = c
    THEN CHOOSE i \in 1..Len(s) : s[i] = c /\ \A j \in 1..(i - 1) : s[j] # c
    ELSE 0

\* The fields of s between the separators c.
RECURSIVE Split(_, _)
Split(s, c) ==
    IF Find(s, c) = 0 THEN <<s>>
    ELSE <<SubSeq(s, 1, Find(s, c) - 1)>>
            \o Split(SubSeq(s, Find(s, c) + 1, Len(s)), c)

\* The value of a digit string in the given radix.
RECURSIVE NumVal(_, _)
NumVal(s, radix) ==
    IF Len(s) = 0 THEN 0
    ELSE NumVal(SubSeq(s, 1, Len(s) - 1), radix) * radix + DigitVal(s[Len(s)])

\* u8::from_str: an optional '+', then one or more decimal digits, the value
\* at most 255. (A '-' is no sign of an unsigned type.)
U8FromStr(s) ==
    LET digits == IF Len(s) > 0 /\ s[1] = "+" THEN Tail(s) ELSE s
    IN  IF /\ Len(digits) > 0
           /\ \A i \in 1..Len(digits) : IsDecDigit(digits[i])
           /\ NumVal(digits, 10) <= 255
        THEN Some(NumVal(digits, 10))
        ELSE None

\* One octet of a dotted quad: one to three decimal digits, no leading zero,
\* at most 255.
IsOctet(f) ==
    /\ Len(f) \in 1..3
    /\ \A i \in 1..Len(f) : IsDecDigit(f[i])
    /\ (Len(f) > 1 => f[1] # "0")
    /\ NumVal(f, 10) <= 255

\* Ipv4Addr::from_str: four octets separated by '.'.
Ipv4FromStr(s) ==
    LET f == Split(s, ".")
    IN  IF Len(f) = 4 /\ \A i \in 1..4 : IsOctet(f[i])
        THEN Some([i \in 1..4 |-> NumVal(f[i], 10)])
        ELSE None

\* One group of an IPv6 literal: one to four hex digits.
IsHexGroup(f) ==
    /\ Len(f) \in 1..4
    /\ \A i \in 1..Len(f) : IsHexDigit(f[i])

\* The two 16-bit groups an embedded dotted quad stands for.
QuadGroups(q) == <<q[1] * 256 + q[2], q[3] * 256 + q[4]>>

\* The 16-bit groups of the ':'-separated text s: hex groups, the last of
\* which may be a dotted quad when quadOk. None when s is no such list.
V6Groups(s, quadOk) ==
    LET f == Split(s, ":")
        n == Len(f)
        last == f[n]
        front == [i \in 1..(n - 1) |-> NumVal(f[i], 16)]
    IN  IF \E i \in 1..(n - 1) : ~IsHexGroup(f[i]) THEN None
        ELSE IF IsHexGroup(last) THEN Some(front \o <<NumVal(last, 16)>>)
        ELSE IF quadOk /\ IsSome(Ipv4FromStr(last))
             THEN Some(front \o QuadGroups(Unwrap(Ipv4FromStr(last))))
        ELSE None

\* The index of the first "::" in s, 0 when there is none.
FindGap(s) ==
    IF \E i \in 1..(Len(s) - 1) : s[i] = ":" /\ s[i + 1] = ":"
    THEN CHOOSE i \in 1..(Len(s) - 1) :
            /\ s[i] = ":" /\ s[i + 1] = ":"
            /\ \A j \in 1..(i - 1) : ~(s[j] = ":" /\ s[j + 1] = ":")
    ELSE 0

\* Ipv6Addr::from_str: eight groups, or fewer with one "::" standing for
\* at least one group of zeroes; a dotted quad may end the address but not
\* the part before "::".
Ipv6FromStr(s) ==
    LET gap == FindGap(s)
        head == SubSeq(s, 1, gap - 1)
        tail == SubSeq(s, gap + 2, Len(s))
        hg == IF Len(head) = 0 THEN Some(<<>>) ELSE V6Groups(head, FALSE)
        tg == IF Len(tail) = 0 THEN Some(<<>>) ELSE V6Groups(tail, TRUE)
        whole == V6Groups(s, TRUE)
    IN  IF gap = 0
        THEN IF IsSome(whole) /\ Len(Unwrap(whole)) = 8 THEN whole ELSE None
        ELSE IF /\ IsSome(hg) /\ IsSome(tg)
                /\ Len(Unwrap(hg)) + Len(Unwrap(tg)) <= 7
             THEN Some(Unwrap(hg)
                        \o [i \in 1..(8 - Len(Unwrap(hg)) - Len(Unwrap(tg))) |-> 0]
                        \o Unwrap(tg))
             ELSE None

\* IpAddr::from_str: an IPv4 literal, else an IPv6 literal.
IpAddrFromStr(s) ==
    IF IsSome(Ipv4FromStr(s))
    THEN Some([v4 |-> TRUE, bits |-> Unwrap(Ipv4FromStr(s))])
    ELSE IF IsSome(Ipv6FromStr(s))
    THEN Some([v4 |-> FALSE, bits |-> Unwrap(Ipv6FromStr(s))])
    ELSE None

\* Result<T, E>.
Ok(x) == [ok |-> TRUE, val |-> x]
Err(e) == [ok |-> FALSE, err |-> e]

\* RoaIpAddress::new_addr as main.rs calls it: the three values it is given.
RoaIpAddress(addr, len, maxlen) == [addr |-> addr, len |-> len, maxlen |-> maxlen]

InvalidRoaPrefix(s) == Err(<<"Invalid ROA prefix '", s, "'">>)

\* A parser that also rejects a maximum length below the length.
RoaPrefixFromStrChecked(s) ==
    LET dash == Find(s, "-")
        prefix == IF dash > 0 THEN SubSeq(s, 1, dash - 1) ELSE s
        maxtxt == IF dash > 0 THEN Some(SubSeq(s, dash + 1, Len(s))) ELSE None
        slash == Find(prefix, "/")
        addr == IpAddrFromStr(SubSeq(prefix, 1, slash - 1))
        len == U8FromStr(SubSeq(prefix, slash + 1, Len(prefix)))
        maxlen == IF IsSome(maxtxt) THEN U8FromStr(Unwrap(maxtxt)) ELSE None
    IN  IF slash = 0 THEN InvalidRoaPrefix(s)
        ELSE IF ~IsSome(addr) THEN InvalidRoaPrefix(s)
        ELSE IF ~IsSome(len) THEN InvalidRoaPrefix(s)
        ELSE IF IsSome(maxtxt) /\ ~IsSome(maxlen) THEN InvalidRoaPrefix(s)
        ELSE IF IsSome(maxlen) /\ Unwrap(maxlen) < Unwrap(len) THEN InvalidRoaPrefix(s)
        ELSE Ok([v4 |-> Unwrap(addr).v4,
                 prefix |-> RoaIpAddress(Unwrap(addr), Unwrap(len), maxlen)])

\* <RoaPrefix as FromStr>::from_str.
RoaPrefixFromStr(s) ==
    LET dash == Find(s, "-")
        prefix == IF dash > 0 THEN SubSeq(s, 1, dash - 1) ELSE s
        maxtxt == IF dash > 0 THEN Some(SubSeq(s, dash + 1, Len(s))) ELSE None
        slash == Find(prefix, "/")
        addr == IpAddrFromStr(SubSeq(prefix, 1, slash - 1))
        len == U8FromStr(SubSeq(prefix, slash + 1, Len(prefix)))
        maxlen == IF IsSome(maxtxt) THEN U8FromStr(Unwrap(maxtxt)) ELSE None
    IN  IF slash = 0 THEN InvalidRoaPrefix(s)
        ELSE IF ~IsSome(addr) THEN InvalidRoaPrefix(s)
        ELSE IF ~IsSome(len) THEN InvalidRoaPrefix(s)
        ELSE IF IsSome(maxtxt) /\ ~IsSome(maxlen) THEN InvalidRoaPrefix(s)
        ELSE Ok([v4 |-> Unwrap(addr).v4,
                 prefix |-> RoaIpAddress(Unwrap(addr), Unwrap(len), maxlen)])

\* ------------------------------------------------------------------------
\* Time. rpki::x509::Time counts seconds; chrono's Duration::days(n) is n
\* days of 86400 seconds.

DurationDays(n) == n * 86400

\* The (not_before, not_after) pair of an object.
Validity(not_before, not_after) ==
    [not_before |-> not_before, not_after |-> not_after]

\* self.not_before.unwrap_or_else(Time::now): the clock is read only when
\* no start time was given.
StartTime(given, now) == IF IsSome(given) THEN Unwrap(given) ELSE now

\* A resolution in which the day count wins over an explicit end.
ResolveValidityDaysFirst(not_before, not_after, valid_days) ==
    IF IsSome(valid_days)
    THEN Some(Validity(not_before, not_before + DurationDays(Unwrap(valid_days))))
    ELSE IF IsSome(not_after)
    THEN Some(Validity(not_before, Unwrap(not_after)))
    ELSE None

\* A resolution in which a missing end means no days at all.
ResolveValidityDefault(not_before, not_after, valid_days) ==
    IF IsSome(not_after)
    THEN Some(Validity(not_before, Unwrap(not_after)))
    ELSE IF IsSome(valid_days)
    THEN Some(Validity(not_before, not_before + DurationDays(Unwrap(valid_days))))
    ELSE Some(Validity(not_before, not_before))

\* The validity of ta, cer, roa and mft: Some(validity), or None when
\* neither --not-after nor --days was given.
ResolveValidity(not_before, not_after, valid_days) ==
    IF IsSome(not_after)
    THEN Some(Validity(not_before, Unwrap(not_after)))
    ELSE IF IsSome(valid_days)
    THEN Some(Validity(not_before, not_before + DurationDays(Unwrap(valid_days))))
    ELSE None

\* The next update of crl and mft: Some(time), or None when neither
\* --next-update nor --next-days was given.
ResolveNextUpdate(this_update, next_update, next_days) ==
    IF IsSome(next_update)
    THEN Some(Unwrap(next_update))
    ELSE IF IsSome(next_days)
    THEN Some(this_update + DurationDays(Unwrap(next_days)))
    ELSE None

\* ------------------------------------------------------------------------
\* Standard error. Every line the program prints goes to standard error:
\* an "error" precedes a return of Err(()), a "report" names a file written,
\* a "panic" is what a failed unwrap! prints, a "usage" is what the argument
\* parser prints when it rejects the command line.

Msg(kind, text) == [kind |-> kind, text |-> text]

\* ------------------------------------------------------------------------
\* Files.

\* What the environment does to a file the program reads.
ReadOutcomes == {"open_fail", "read_fail", "ok"}
\* What the environment does to a file the program writes.
WriteOutcomes == {"create_fail", "write_fail", "ok"}

\* A file that does not exist.
NoFile == [exists |-> FALSE]
\* A file holding all of content, or (complete = FALSE) some proper prefix.
FileOf(content, complete) ==
    [exists |-> TRUE, content |-> content, complete |-> complete]

\* load_file: the bytes of the file at path, or one line on standard error
\* and Err(()).
LoadFile(path, outcome, data) ==
    IF outcome = "open_fail"
    THEN [res |-> Err("()"), out |-> <<Msg("error", <<"Failed to open file", path>>)>>]
    ELSE IF outcome = "read_fail"
    THEN [res |-> Err("()"), out |-> <<Msg("error", <<"Failed to read file", path>>)>>]
    ELSE [res |-> Ok(data), out |-> <<>>]

\* What a key file may hold: the DER of a key, or something else.
DerOf(k) == [der |-> Some(k)]
Garbage == [der |-> None]
IsDer(data) == IsSome(data.der)
KeyIn(path) == [key |-> path]
KeyFileData(path) == {DerOf(KeyIn(path)), Garbage}

\* A create_signer that reports a failure of load_file a second time.
CreateSignerDouble(issuer_key, outcome, data) ==
    LET der == LoadFile(issuer_key, outcome, data)
    IN  IF ~der.res.ok
        THEN [res |-> Err("()"),
              out |-> der.out \o <<Msg("error", <<"Invalid issuer key", issuer_key>>)>>]
        ELSE IF ~IsDer(der.res.val)
        THEN [res |-> Err("()"),
              out |-> <<Msg("error", <<"Invalid issuer key", issuer_key>>)>>]
        ELSE [res |-> Ok(Unwrap(der.res.val.der)), out |-> <<>>]

\* create_signer: a signer holding the key of the file at issuer_key.
CreateSigner(issuer_key, outcome, data) ==
    LET der == LoadFile(issuer_key, outcome, data)
    IN  IF ~der.res.ok
        THEN [res |-> Err("()"), out |-> der.out]
        ELSE IF ~IsDer(der.res.val)
        THEN [res |-> Err("()"),
              out |-> <<Msg("error", <<"Invalid issuer key", issuer_key>>)>>]
        ELSE [res |-> Ok(Unwrap(der.res.val.der)), out |-> <<>>]

\* save_file: create the file at path, then write content to it.
SaveFile(files, path, content, outcome) ==
    IF outcome = "create_fail"
    THEN [res |-> Err("()"), fs |-> files,
          out |-> <<Msg("error", <<"Failed to open file", path>>)>>]
    ELSE IF outcome = "write_fail"
    THEN [res |-> Err("()"), fs |-> [files EXCEPT ![path] = FileOf(content, FALSE)],
          out |-> <<Msg("error", <<"Failed to write to file", path>>)>>]
    ELSE [res |-> Ok("()"), fs |-> [files EXCEPT ![path] = FileOf(content, TRUE)],
          out |-> <<>>]

\* ------------------------------------------------------------------------
\* Resources.

Absent == [tag |-> "Absent"]
Inherit == [tag |-> "Inherit"]
Explicit(blocks) == [tag |-> "Explicit", blocks |-> blocks]

\* Cert::run, each family: the inherit flag, else a non-empty list, else
\* nothing is set.
ResourcesOf(inherit, blocks) ==
    IF inherit THEN Inherit
    ELSE IF Len(blocks) > 0 THEN Explicit(blocks)
    ELSE Absent

\* The three families of a CA certificate, v6 taking the flag of v4.
CertResourcesCrossed(a) ==
    [v4 |-> ResourcesOf(a.inherit_v4, a.v4_resources),
     v6 |-> ResourcesOf(a.inherit_v4, a.v6_resources),
     as |-> ResourcesOf(a.inherit_as, a.as_resources)]

\* The three families of a CA certificate.
CertResources(a) ==
    [v4 |-> ResourcesOf(a.inherit_v4, a.v4_resources),
     v6 |-> ResourcesOf(a.inherit_v6, a.v6_resources),
     as |-> ResourcesOf(a.inherit_as, a.as_resources)]

\* The three families of a trust-anchor certificate: there is no inherit
\* flag.
TaResources(a) ==
    [v4 |-> IF Len(a.v4_resources) > 0 THEN Explicit(a.v4_resources) ELSE Absent,
     v6 |-> IF Len(a.v6_resources) > 0 THEN Explicit(a.v6_resources) ELSE Absent,
     as |-> IF Len(a.as_resources) > 0 THEN Explicit(a.as_resources) ELSE Absent]

\* ------------------------------------------------------------------------
\* Keys and certificates.

SubjectName(k) == [name_of |-> k]
KeyIdentifier(k) == [ki_of |-> k]

\* Ta::run: the certificate to be signed.
TaCert(a, key_pub, validity) ==
    [serial |-> a.serial,
     issuer |-> SubjectName(key_pub),
     validity |-> validity,
     subject |-> None,
     subject_key |-> key_pub,
     key_usage |-> "Ca",
     overclaim |-> "Refuse",
     basic_ca |-> Some(TRUE),
     authority_key_identifier |-> Some(KeyIdentifier(key_pub)),
     crl_uri |-> None,
     ca_issuer |-> None,
     ca_repository |-> Some(a.ca_repository),
     rpki_manifest |-> Some(a.rpki_manifest),
     rpki_notify |-> a.rpki_notify,
     resources |-> TaResources(a)]

\* A CA certificate naming its subject's key as the issuer's.
CaCertSelfIssued(a, issuer_pub, subject_key, validity) ==
    [serial |-> a.serial,
     issuer |-> SubjectName(subject_key),
     validity |-> validity,
     subject |-> None,
     subject_key |-> subject_key,
     key_usage |-> "Ca",
     overclaim |-> IF a.trim_resources THEN "Trim" ELSE "Refuse",
     basic_ca |-> Some(TRUE),
     authority_key_identifier |-> Some(KeyIdentifier(subject_key)),
     crl_uri |-> Some(a.crl_uri),
     ca_issuer |-> Some(a.ca_issuer),
     ca_repository |-> Some(a.ca_repository),
     rpki_manifest |-> Some(a.rpki_manifest),
     rpki_notify |-> a.rpki_notify,
     resources |-> CertResources(a)]

\* Cert::run: the certificate to be signed.
CaCert(a, issuer_pub, subject_key, validity) ==
    [serial |-> a.serial,
     issuer |-> SubjectName(issuer_pub),
     validity |-> validity,
     subject |-> None,
     subject_key |-> subject_key,
     key_usage |-> "Ca",
     overclaim |-> IF a.trim_resources THEN "Trim" ELSE "Refuse",
     basic_ca |-> Some(TRUE),
     authority_key_identifier |-> Some(KeyIdentifier(issuer_pub)),
     crl_uri |-> Some(a.crl_uri),
     ca_issuer |-> Some(a.ca_issuer),
     ca_repository |-> Some(a.ca_repository),
     rpki_manifest |-> Some(a.rpki_manifest),
     rpki_notify |-> a.rpki_notify,
     resources |-> CertResources(a)]

\* Crl::run: the certificate list to be signed.
CertList(a, issuer_pub, this_update, next_update) ==
    [issuer |-> SubjectName(issuer_pub),
     this_update |-> this_update,
     next_update |-> next_update,
     revoked_certs |-> a.revoked_certs,
     authority_key_identifier |-> KeyIdentifier(issuer_pub),
     crl_number |-> a.crl_number]

\* SignedObjectBuilder::new as Roa::run and Mft::run call it.
SignedObjectBuilder(a, validity) ==
    [serial |-> a.serial, validity |-> validity, crl_uri |-> a.crl_uri,
     ca_issuer |-> a.ca_issuer, signed_object |-> a.signed_object]

\* Those of the prefixes whose family is v4 (or is not), in their order.
RECURSIVE FamilyOf(_, _)
FamilyOf(prefixes, v4) ==
    IF Len(prefixes) = 0 THEN <<>>
    ELSE (IF Head(prefixes).v4 = v4 THEN <<Head(prefixes).prefix>> ELSE <<>>)
            \o FamilyOf(Tail(prefixes), v4)

\* Roa::run: the ROA to be signed.
RoaContent(a, prefixes, validity) ==
    [asn |-> a.asn,
     v4 |-> FamilyOf(prefixes, TRUE),
     v6 |-> FamilyOf(prefixes, FALSE),
     envelope |-> SignedObjectBuilder(a, validity)]

\* Mft::run: the manifest to be signed.
ManifestContent(a, this_update, next_update, files, validity) ==
    [number |-> a.number,
     this_update |-> this_update,
     next_update |-> next_update,
     alg |-> "sha256",
     files |-> files,
     envelope |-> SignedObjectBuilder(a, validity)]

\* The signed object in its encoded form.
Captured(tbs, key) == [encoded |-> [tbs |-> tbs, signed_by |-> key]]

\* A TAL without the blank line.
TalLinesNoBlank(a, key_pub) ==
    <<a.tal_rsync_uri>>
        \o (IF IsSome(a.tal_https_uri) THEN <<Unwrap(a.tal_https_uri)>> ELSE <<>>)
        \o <<[base64 |-> [info_of |-> key_pub]]>>

\* Ta::run: the lines of the TAL.
TalLines(a, key_pub) ==
    <<a.tal_rsync_uri>>
        \o (IF IsSome(a.tal_https_uri) THEN <<Unwrap(a.tal_https_uri)>> ELSE <<>>)
        \o <<"">>
        \o <<[base64 |-> [info_of |-> key_pub]]>>

\* ------------------------------------------------------------------------
\* Manifest input files.

\* A path is its components, a component its bytes.
\* The components "..", "." (a path that is only ".") and "/" (a path that
\* is only the root) are not normal components.
DotDot == <<46, 46>>
CurDir == <<46>>
RootDir == <<47>>

\* Path::file_name: the last component when it is a normal one.
FileName(path) ==
    IF Len(path) = 0 \/ path[Len(path)] \in {DotDot, CurDir, RootDir} THEN None
    ELSE Some(path[Len(path)])

\* Whether the bytes are UTF-8 (OsStr::to_str gives None when not).
RECURSIVE IsUtf8(_)
IsUtf8(b) ==
    LET cont(i, lo, hi) == Len(b) >= i /\ b[i] >= lo /\ b[i] <= hi
        rest(n) == IsUtf8(SubSeq(b, n + 1, Len(b)))
    IN  IF Len(b) = 0 THEN TRUE
        ELSE IF b[1] < 128 THEN rest(1)
        ELSE IF b[1] \in 194..223 THEN cont(2, 128, 191) /\ rest(2)
        ELSE IF b[1] = 224 THEN cont(2, 160, 191) /\ cont(3, 128, 191) /\ rest(3)
        ELSE IF b[1] = 237 THEN cont(2, 128, 159) /\ cont(3, 128, 191) /\ rest(3)
        ELSE IF b[1] \in 225..239 THEN cont(2, 128, 191) /\ cont(3, 128, 191) /\ rest(3)
        ELSE IF b[1] = 240
             THEN cont(2, 144, 191) /\ cont(3, 128, 191) /\ cont(4, 128, 191) /\ rest(4)
        ELSE IF b[1] \in 241..243
             THEN cont(2, 128, 191) /\ cont(3, 128, 191) /\ cont(4, 128, 191) /\ rest(4)
        ELSE IF b[1] = 244
             THEN cont(2, 128, 143) /\ cont(3, 128, 191) /\ cont(4, 128, 191) /\ rest(4)
        ELSE FALSE

OsStrToStr(b) == IF IsUtf8(b) THEN Some(b) ELSE None

IsAscii(b) == \A i \in 1..Len(b) : b[i] < 128

\* A name check that lets every final component through.
ManifestNameAny(path) == FileName(path)

\* Mft::run: the name a manifest lists a file under, None when the path has
\* no final component or it is not ASCII text.
ManifestName(path) ==
    LET name == IF IsSome(FileName(path))
                THEN OsStrToStr(Unwrap(FileName(path))) ELSE None
    IN  IF IsSome(name) /\ IsAscii(Unwrap(name)) THEN name ELSE None

\* The buffer Mft::run reads a file through.
BufSize == 4096

\* The digest: start, update with each chunk read, finish.
DigestStart == <<>>
DigestUpdateLast(acc, chunk) == chunk
DigestUpdate(acc, chunk) == acc \o chunk
DigestFinish(acc) == [sha256_of |-> acc]

FileAndHash(name, hash) == [file |-> name, hash |-> hash]

\* ------------------------------------------------------------------------
\* The command lines the model runs.

Commands == {"key", "ta", "cer", "crl", "roa", "mft"}

Times == 0..MaxTime
DayCounts == (-1..MaxDays) \cup {30}

V4Blocks == {"10.0.0.0/8", "192.168.0.0/16"}
V6Blocks == {"2001:db8::/32"}
AsBlocks == {"64512", "64513"}

\* ROA prefix texts: an address, "/" and a length, "-" and a maximum
\* length, each part present or not, well-formed or not.
Txt10000 == <<"1", "0", ".", "0", ".", "0", ".", "0">>
Txt10001 == <<"1", "0", ".", "0", ".", "0", ".", "1">>
TxtDb8 == <<"2", "0", "0", "1", ":", "d", "b", "8", ":", ":">>
TxtDB8 == <<"2", "0", "0", "1", ":", "D", "B", "8", ":", ":">>
AddrTexts == {Txt10000, Txt10001, TxtDb8, TxtDB8, <<"1", "0", ".", "0", ".", "0">>, <<>>}
NumTexts == {<<>>, <<"8">>, <<"3", "2">>, <<"4", "8">>, <<"2", "5", "6">>,
             <<"a", "b", "c">>, <<"+", "8">>}
PrefixTexts ==
    {a \o slash \o l \o dash \o m :
        a \in AddrTexts, slash \in {<<>>, <<"/">>}, l \in NumTexts,
        dash \in {<<>>, <<"-">>}, m \in NumTexts}
\* Texts with a separator more than once, or in the other order.
OddPrefixTexts ==
    {Txt10000 \o <<"/", "8", "-", "8", "-", "8">>,
     Txt10000 \o <<"/", "8", "/", "8">>,
     Txt10000 \o <<"-", "8", "/", "8">>,
     Txt10000 \o <<"/", "8", "-", "8", "/", "8">>,
     <<":", ":", "f", "f", "f", "f", ":">> \o Txt10001 \o <<"/", "9", "6">>,
     <<":", ":", "F", "F", "f", "F", ":">> \o Txt10001 \o <<"/", "9", "6">>,
     <<"F", "F", ":", ":", "g">> \o <<"/", "8">>}
GoodPrefixTexts ==
    {Txt10000 \o <<"/", "8">>, TxtDb8 \o <<"/", "3", "2", "-", "4", "8">>}

\* Manifest input paths: dir/b, a, a name that is UTF-8 but not ASCII,
\* dir/.., a name that is not UTF-8, and the path that is only ".".
MftPaths == {<<<<100>>, <<98>>>>, <<<<97>>>>, <<<<195, 169>>>>,
             <<<<100>>, DotDot>>, <<<<255>>>>, <<CurDir>>}
\* What a manifest input file may hold.
FileContents == {<<>>, <<7>>, <<7, 9>>, <<9, 7>>}

DefaultArgs ==
    [key |-> "ta.key", issuer_key |-> "issuer.key", subject_key |-> "subject.pub",
     private |-> "private.key", public |-> "public.key",
     serial |-> 1, crl_number |-> 1, number |-> 1, asn |-> 64512,
     not_before |-> Some(0), not_after |-> None, valid_days |-> Some(30),
     this_update |-> Some(0), next_update |-> None, next_days |-> Some(1),
     trim_resources |-> FALSE,
     crl_uri |-> "rsync://repo/ca.crl", ca_issuer |-> "rsync://repo/ca.cer",
     ca_repository |-> "rsync://repo/ca/", rpki_manifest |-> "rsync://repo/ca/ca.mft",
     signed_object |-> "rsync://repo/ca/object",
     rpki_notify |-> None,
     v4_resources |-> <<>>, v6_resources |-> <<>>, as_resources |-> <<>>,
     inherit_v4 |-> FALSE, inherit_v6 |-> FALSE, inherit_as |-> FALSE,
     tal_rsync_uri |-> "rsync://repo/ta.cer", tal_https_uri |-> None,
     output |-> "out", output_tal |-> None,
     revoked_certs |-> <<>>, prefixes |-> <<>>, files |-> <<>>]

\* Every way of giving the start, the end and the day count of a validity.
WithValidity(base) ==
    {[base EXCEPT !.not_before = nb, !.not_after = na, !.valid_days = d] :
        nb \in Opt(Times), na \in Opt(Times), d \in Opt(DayCounts)}

\* Every way of giving this update, the next update and its day count.
WithUpdate(base) ==
    {[base EXCEPT !.this_update = tu, !.next_update = nu, !.next_days = d] :
        tu \in Opt(Times), nu \in Opt(Times), d \in Opt(DayCounts)}

\* Every choice of block lists.
WithBlocks(base) ==
    {[base EXCEPT !.v4_resources = v4, !.v6_resources = v6, !.as_resources = as] :
        v4 \in SeqUpTo(V4Blocks, MaxBlocks), v6 \in SeqUpTo(V6Blocks, MaxBlocks),
        as \in SeqUpTo(AsBlocks, MaxBlocks)}

\* Every choice of inherit flags.
WithFlags(base) ==
    {[base EXCEPT !.inherit_v4 = i4, !.inherit_v6 = i6, !.inherit_as = ia] :
        i4 \in BOOLEAN, i6 \in BOOLEAN, ia \in BOOLEAN}

\* Every choice of the optional URIs, of the TAL output and of the trim
\* flag.
WithTal(base) ==
    {[base EXCEPT !.rpki_notify = n, !.tal_https_uri = h, !.output_tal = t,
                  !.trim_resources = trim] :
        n \in Opt({"https://repo/notify.xml"}), h \in Opt({"https://repo/ta.cer"}),
        t \in Opt({"tal"}), trim \in BOOLEAN}

\* The trust-anchor issuance `--v4 10.0.0.0/8 --as 64512 --days 30`.
ExampleTa ==
    [DefaultArgs EXCEPT !.v4_resources = <<"10.0.0.0/8">>,
                        !.as_resources = <<"64512">>,
                        !.not_before = None, !.valid_days = Some(30)]

ArgsOf(c) ==
    CASE c = "key" -> {DefaultArgs}
      [] c = "ta" -> WithValidity(DefaultArgs) \cup WithBlocks(DefaultArgs)
                        \cup WithTal(ExampleTa)
      [] c = "cer" -> WithValidity(DefaultArgs)
                        \cup UNION {WithFlags(a) : a \in WithBlocks(DefaultArgs)}
                        \cup WithTal(DefaultArgs)
      [] c = "crl" -> WithUpdate(DefaultArgs)
      [] c = "roa" -> WithValidity(DefaultArgs)
                        \cup {[DefaultArgs EXCEPT !.prefixes = <<t>>] :
                                t \in PrefixTexts \cup OddPrefixTexts}
                        \cup {[DefaultArgs EXCEPT !.prefixes = l] :
                                l \in SeqUpTo(GoodPrefixTexts, MaxPrefixes)}
      [] c = "mft" -> WithValidity(DefaultArgs)
                        \cup WithValidity([DefaultArgs EXCEPT !.next_days = None])
                        \cup WithUpdate(DefaultArgs)
                        \cup {[DefaultArgs EXCEPT !.files = l] :
                                l \in SeqUpTo(MftPaths, MaxFiles)}

\* The files the program may write.
OutPaths == {"out", "tal", "private.key", "public.key"}

\* ------------------------------------------------------------------------
\* The state of one run.

VARIABLES
    cmd,          \* the subcommand
    args,         \* its arguments
    pc,           \* where the run is
    prefixes,     \* roa: the parsed prefixes
    signer,       \* the key create_signer loaded, if it did
    key_pub,      \* the public key info of that key, once asked for
    subject_key,  \* cer: the decoded subject key
    nows,         \* what the clock returned, read by read
    validity,     \* the resolved validity
    update,       \* the resolved (this_update, next_update)
    cur,          \* mft: the file being listed
    files,        \* mft: the entries listed so far
    opened,       \* mft: the files opened so far, with what they held
    tbs,          \* the object to be signed, once built
    bytes,        \* the signed and encoded object
    signCalls,    \* how many times the signer was asked to sign
    fs,           \* the output files
    stderr,       \* the lines printed
    exit          \* the exit status, once the process has ended

input == <<cmd, args>>
keys == <<signer, key_pub, subject_key>>
timing == <<nows, validity, update>>
listing == <<cur, files, opened>>
product == <<tbs, bytes, signCalls>>
vars == <<cmd, args, pc, prefixes, signer, key_pub, subject_key, nows, validity,
          update, cur, files, opened, tbs, bytes, signCalls, fs, stderr, exit>>

Init ==
    /\ cmd \in Commands
    /\ args \in ArgsOf(cmd)
    /\ pc = "from_args"
    /\ prefixes = <<>>
    /\ signer = None /\ key_pub = None /\ subject_key = None
    /\ nows = <<>> /\ validity = None /\ update = None
    /\ cur = None /\ files = <<>> /\ opened = <<>>
    /\ tbs = None /\ bytes = None /\ signCalls = 0
    /\ fs = [p \in OutPaths |-> NoFile]
    /\ stderr = <<>>
    /\ exit = None

\* The steps with the timing of roa resolved before its signing key is
\* loaded.
StepAfterTimingFirst(c, step) ==
    CASE step = "from_args" ->
            IF c = "key" THEN "key_generate"
            ELSE IF c = "roa" THEN "validity" ELSE "create_signer"
      [] step = "create_signer" ->
            IF c = "roa" THEN "build" ELSE IF c = "mft" THEN "validity" ELSE "key_info"
      [] step = "key_info" ->
            IF c = "cer" THEN "subject_key" ELSE IF c = "crl" THEN "update" ELSE "validity"
      [] step = "subject_key" -> "validity"
      [] step = "validity" ->
            IF c = "mft" THEN "update" ELSE IF c = "roa" THEN "create_signer" ELSE "build"
      [] step = "update" -> IF c = "mft" /\ Len(args.files) > 0 THEN "mft_open" ELSE "build"
      [] step = "build" -> "sign"
      [] step = "sign" -> "save"
      [] step = "save" -> IF c = "ta" /\ IsSome(args.output_tal) THEN "tal" ELSE "ret_ok"
      [] step = "tal" -> "ret_ok"

\* The step after `step` in the run of command c.
StepAfter(c, step) ==
    CASE step = "from_args" -> IF c = "key" THEN "key_generate" ELSE "create_signer"
      [] step = "create_signer" -> IF c \in {"roa", "mft"} THEN "validity" ELSE "key_info"
      [] step = "key_info" ->
            IF c = "cer" THEN "subject_key" ELSE IF c = "crl" THEN "update" ELSE "validity"
      [] step = "subject_key" -> "validity"
      [] step = "validity" -> IF c = "mft" THEN "update" ELSE "build"
      [] step = "update" -> IF c = "mft" /\ Len(args.files) > 0 THEN "mft_open" ELSE "build"
      [] step = "build" -> "sign"
      [] step = "sign" -> "save"
      [] step = "save" -> IF c = "ta" /\ IsSome(args.output_tal) THEN "tal" ELSE "ret_ok"
      [] step = "tal" -> "ret_ok"

\* eprintln!(..); return Err(())
Fail(out) ==
    /\ stderr' = stderr \o out
    /\ pc' = "ret_err"
    /\ UNCHANGED exit

\* A failed unwrap!: the panic message, and the process ends with status 101.
Panic(what) ==
    /\ stderr' = Append(stderr, Msg("panic", what))
    /\ pc' = "exited"
    /\ exit' = Some(101)

\* ------------------------------------------------------------------------
\* main, before and after run.

\* The index of the first prefix text that does not parse, 0 when all do.
FirstBad(texts) ==
    IF \E i \in 1..Len(texts) : ~RoaPrefixFromStr(texts[i]).ok
    THEN CHOOSE i \in 1..Len(texts) :
            /\ ~RoaPrefixFromStr(texts[i]).ok
            /\ \A j \in 1..(i - 1) : RoaPrefixFromStr(texts[j]).ok
    ELSE 0

\* Operation::from_args(): the arguments are parsed, the ROA prefixes by
\* RoaPrefix::from_str; a prefix that does not parse ends the process with
\* its message and status 1.
FromArgs ==
    /\ pc = "from_args"
    /\ IF cmd = "roa" /\ FirstBad(args.prefixes) > 0
       THEN /\ stderr' = Append(stderr,
                    Msg("usage", RoaPrefixFromStr(args.prefixes[FirstBad(args.prefixes)]).err))
            /\ exit' = Some(1)
            /\ pc' = "exited"
            /\ UNCHANGED prefixes
       ELSE /\ prefixes' = IF cmd = "roa"
                           THEN [i \in 1..Len(args.prefixes) |->
                                    RoaPrefixFromStr(args.prefixes[i]).val]
                           ELSE <<>>
            /\ pc' = StepAfter(cmd, "from_args")
            /\ UNCHANGED <<stderr, exit>>
    /\ UNCHANGED <<input, keys, timing, listing, product, fs>>

\* main: status 1 when run returned Err(()), 0 when it returned Ok(()).
MainExit ==
    /\ pc \in {"ret_ok", "ret_err"}
    /\ exit' = Some(IF pc = "ret_err" THEN 1 ELSE 0)
    /\ pc' = "exited"
    /\ UNCHANGED <<input, prefixes, keys, timing, listing, product, fs, stderr>>

\* ------------------------------------------------------------------------
\* Key::run.

PublicOf(k) == [public_of |-> k]
GeneratedKey == [key |-> "generated"]

\* One key file: File::create, then the DER of the key, then write_all.
KeyFileOutcomes == {"create_fail", "der_fail", "write_fail", "ok"}
KeyFile(disk, path, which, content, outcome) ==
    IF outcome = "create_fail"
    THEN [res |-> Err("()"), fs |-> disk,
          out |-> <<Msg("error", <<"Failed to open key file", which>>)>>]
    ELSE IF outcome = "der_fail"
    THEN [res |-> Err("()"), fs |-> [disk EXCEPT ![path] = FileOf(None, FALSE)],
          out |-> <<Msg("error", <<"Failed to extract key", which>>)>>]
    ELSE IF outcome = "write_fail"
    THEN [res |-> Err("()"), fs |-> [disk EXCEPT ![path] = FileOf(content, FALSE)],
          out |-> <<Msg("error", <<"Failed to write to key file", which>>)>>]
    ELSE [res |-> Ok("()"), fs |-> [disk EXCEPT ![path] = FileOf(content, TRUE)],
          out |-> <<>>]

KeyGenerate ==
    /\ pc = "key_generate"
    /\ \E ok \in BOOLEAN :
        IF ok THEN pc' = "key_private" /\ UNCHANGED <<stderr, exit>>
        ELSE Fail(<<Msg("error", <<"Failed to generate key">>)>>)
    /\ UNCHANGED <<input, prefixes, keys, timing, listing, product, fs>>

KeyWritePrivate ==
    /\ pc = "key_private"
    /\ \E outcome \in KeyFileOutcomes :
        LET r == KeyFile(fs, args.private, "private", DerOf(GeneratedKey), outcome)
        IN  /\ fs' = r.fs
            /\ IF r.res.ok THEN pc' = "key_public" /\ UNCHANGED <<stderr, exit>>
               ELSE Fail(r.out)
    /\ UNCHANGED <<input, prefixes, keys, timing, listing, product>>

KeyWritePublic ==
    /\ pc = "key_public"
    /\ \E outcome \in KeyFileOutcomes :
        LET r == KeyFile(fs, args.public, "public", DerOf(PublicOf(GeneratedKey)), outcome)
        IN  /\ fs' = r.fs
            /\ IF r.res.ok
               THEN /\ stderr' = stderr \o <<Msg("report", <<"key:", args.private>>),
                                             Msg("report", <<"pub:", args.public>>)>>
                    /\ pc' = "ret_ok"
                    /\ UNCHANGED exit
               ELSE Fail(r.out)
    /\ UNCHANGED <<input, prefixes, keys, timing, listing, product>>

\* ------------------------------------------------------------------------
\* The steps the five issuing subcommands share.

\* let (signer, key) = create_signer(..)?
RunCreateSigner ==
    /\ pc = "create_signer"
    /\ LET path == IF cmd = "ta" THEN args.key ELSE args.issuer_key
       IN  \E outcome \in ReadOutcomes, data \in KeyFileData(path) :
            LET r == CreateSigner(path, outcome, data)
            IN  IF r.res.ok
                THEN /\ signer' = Some(r.res.val)
                     /\ pc' = StepAfter(cmd, "create_signer")
                     /\ UNCHANGED <<stderr, exit>>
                ELSE Fail(r.out) /\ UNCHANGED signer
    /\ UNCHANGED <<input, prefixes, key_pub, subject_key, timing, listing, product, fs>>

\* unwrap!(signer.get_key_info(&key)) of ta, cer and crl.
GetKeyInfo ==
    /\ pc = "key_info"
    /\ \E ok \in BOOLEAN :
        IF ok
        THEN /\ key_pub' = Some(PublicOf(Unwrap(signer)))
             /\ pc' = StepAfter(cmd, "key_info")
             /\ UNCHANGED <<stderr, exit>>
        ELSE Panic(<<"get_key_info">>) /\ UNCHANGED key_pub
    /\ UNCHANGED <<input, prefixes, signer, subject_key, timing, listing, product, fs>>

\* Cert::run: load_file(&self.subject_key)?, then PublicKey::decode.
LoadSubjectKey(path, outcome, data) ==
    LET file == LoadFile(path, outcome, data)
    IN  IF ~file.res.ok THEN [res |-> Err("()"), out |-> file.out]
        ELSE IF ~IsDer(file.res.val)
        THEN [res |-> Err("()"),
              out |-> <<Msg("error", <<"Failed to load subject public key">>)>>]
        ELSE [res |-> Ok(Unwrap(file.res.val.der)), out |-> <<>>]

CertSubjectKey ==
    /\ pc = "subject_key"
    /\ \E outcome \in ReadOutcomes,
          data \in {DerOf(PublicOf(KeyIn(args.subject_key))), Garbage} :
        LET r == LoadSubjectKey(args.subject_key, outcome, data)
        IN  IF r.res.ok
            THEN /\ subject_key' = Some(r.res.val)
                 /\ pc' = StepAfter(cmd, "subject_key")
                 /\ UNCHANGED <<stderr, exit>>
            ELSE Fail(r.out) /\ UNCHANGED subject_key
    /\ UNCHANGED <<input, prefixes, signer, key_pub, timing, listing, product, fs>>

\* The validity of ta, cer, roa and mft. The clock is read when no start
\* time was given.
ResolveValidityStep ==
    /\ pc = "validity"
    /\ \E now \in (IF IsSome(args.not_before) THEN {0} ELSE Times) :
        LET not_before == StartTime(args.not_before, now)
            v == ResolveValidity(not_before, args.not_after, args.valid_days)
        IN  /\ nows' = IF IsSome(args.not_before) THEN nows ELSE Append(nows, now)
            /\ IF IsSome(v)
               THEN /\ validity' = v
                    /\ pc' = StepAfter(cmd, "validity")
                    /\ UNCHANGED <<stderr, exit>>
               ELSE /\ Fail(<<Msg("error", <<"Either --not-after or --days must be given.">>)>>)
                    /\ UNCHANGED validity
    /\ UNCHANGED <<input, prefixes, keys, update, listing, product, fs>>

\* The update times of crl and mft.
ResolveUpdateStep ==
    /\ pc = "update"
    /\ \E now \in (IF IsSome(args.this_update) THEN {0} ELSE Times) :
        LET this_update == StartTime(args.this_update, now)
            next == ResolveNextUpdate(this_update, args.next_update, args.next_days)
        IN  /\ nows' = IF IsSome(args.this_update) THEN nows ELSE Append(nows, now)
            /\ IF IsSome(next)
               THEN /\ update' = Some([this_update |-> this_update,
                                       next_update |-> Unwrap(next)])
                    /\ pc' = StepAfter(cmd, "update")
                    /\ UNCHANGED <<stderr, exit>>
               ELSE /\ Fail(<<Msg("error",
                                <<"Either --next-update or --next-days must be given.">>)>>)
                    /\ UNCHANGED update
    /\ UNCHANGED <<input, prefixes, keys, validity, listing, product, fs>>

\* The object each subcommand assembles for the signer.
Build(c) ==
    /\ cmd = c
    /\ pc = "build"
    /\ tbs' = Some(
        CASE c = "ta" -> TaCert(args, Unwrap(key_pub), Unwrap(validity))
          [] c = "cer" ->
                CaCert(args, Unwrap(key_pub), Unwrap(subject_key), Unwrap(validity))
          [] c = "crl" ->
                CertList(args, Unwrap(key_pub), Unwrap(update).this_update,
                         Unwrap(update).next_update)
          [] c = "roa" -> RoaContent(args, prefixes, Unwrap(validity))
          [] c = "mft" ->
                ManifestContent(args, Unwrap(update).this_update,
                                Unwrap(update).next_update, files, Unwrap(validity)))
    /\ pc' = StepAfter(cmd, "build")
    /\ UNCHANGED <<input, prefixes, keys, timing, listing, bytes, signCalls, fs,
                   stderr, exit>>

TaBuild == Build("ta")
CertBuild == Build("cer")
CrlBuild == Build("crl")
RoaBuild == Build("roa")
MftBuild == Build("mft")

\* unwrap!(tbs.into_..(&signer, &key)).to_captured(): the signer signs, and
\* the signed object is encoded.
Sign ==
    /\ pc = "sign"
    /\ signCalls' = signCalls + 1
    /\ \E ok \in BOOLEAN :
        IF ok
        THEN /\ bytes' = Some(Captured(Unwrap(tbs), Unwrap(signer)))
             /\ pc' = StepAfter(cmd, "sign")
             /\ UNCHANGED <<stderr, exit>>
        ELSE Panic(<<"sign">>) /\ UNCHANGED bytes
    /\ UNCHANGED <<input, prefixes, keys, timing, listing, tbs, fs>>

\* save_file(&self.output, &bytes)?, then the line naming the file.
Save ==
    /\ pc = "save"
    /\ \E outcome \in WriteOutcomes :
        LET r == SaveFile(fs, args.output, Unwrap(bytes), outcome)
        IN  /\ fs' = r.fs
            /\ IF r.res.ok
               THEN /\ stderr' = Append(stderr, Msg("report", <<cmd, args.output>>))
                    /\ pc' = StepAfter(cmd, "save")
                    /\ UNCHANGED exit
               ELSE Fail(r.out)
    /\ UNCHANGED <<input, prefixes, keys, timing, listing, product>>

\* Ta::run: the TAL, when --output-tal was given.
TaTal ==
    /\ pc = "tal"
    /\ \E outcome \in WriteOutcomes :
        LET path == Unwrap(args.output_tal)
            r == SaveFile(fs, path, TalLines(args, Unwrap(key_pub)), outcome)
        IN  /\ fs' = r.fs
            /\ IF r.res.ok
               THEN /\ stderr' = Append(stderr, Msg("report", <<"TAL:", path>>))
                    /\ pc' = StepAfter(cmd, "tal")
                    /\ UNCHANGED exit
               ELSE Fail(r.out)
    /\ UNCHANGED <<input, prefixes, keys, timing, listing, product>>

\* ------------------------------------------------------------------------
\* Mft::run: the loop over the input files.

\* File::open(&path) of the next file.
MftOpen ==
    /\ pc = "mft_open"
    /\ LET path == args.files[Len(files) + 1]
       IN  \/ /\ Fail(<<Msg("error", <<"Cannot open file", path>>)>>)
              /\ UNCHANGED <<cur, opened>>
           \/ \E content \in FileContents :
                /\ opened' = Append(opened, [path |-> path, content |-> content])
                /\ cur' = Some([path |-> path, content |-> content, pos |-> 0,
                                name |-> None, digest |-> None])
                /\ pc' = "mft_name"
                /\ UNCHANGED <<stderr, exit>>
    /\ UNCHANGED <<input, prefixes, keys, timing, files, product, fs>>

\* A name step that refuses no file: a name that is not ASCII text is
\* replaced, and the file is read.
MftNameLossy ==
    /\ pc = "mft_name"
    /\ LET f == Unwrap(cur)
           name == IF IsSome(ManifestName(f.path)) THEN ManifestName(f.path)
                   ELSE Some(<<63>>)
       IN  /\ cur' = Some([f EXCEPT !.name = name, !.digest = Some(DigestStart)])
           /\ pc' = "mft_read"
           /\ UNCHANGED <<stderr, exit>>
    /\ UNCHANGED <<input, prefixes, keys, timing, files, opened, product, fs>>

\* The name of the open file, then alg.start().
MftName ==
    /\ pc = "mft_name"
    /\ LET f == Unwrap(cur)
           name == ManifestName(f.path)
       IN  IF IsSome(name)
           THEN /\ cur' = Some([f EXCEPT !.name = name, !.digest = Some(DigestStart)])
                /\ pc' = "mft_read"
                /\ UNCHANGED <<stderr, exit>>
           ELSE /\ Fail(<<Msg("error", <<"Illegal file name", f.path>>)>>)
                /\ UNCHANGED cur
    /\ UNCHANGED <<input, prefixes, keys, timing, files, opened, product, fs>>

Min(a, b) == IF a < b THEN a ELSE b

\* One file.read(&mut buf): an error, or the next bytes of the file, as many
\* as the read returns; none at the end of the file, and then the entry is
\* pushed and the loop goes on to the next file.
MftRead ==
    /\ pc = "mft_read"
    /\ LET f == Unwrap(cur)
           left == Len(f.content) - f.pos
       IN  \/ /\ Fail(<<Msg("error", <<"Cannot read file", f.path>>)>>)
              /\ UNCHANGED <<cur, files>>
           \/ /\ left > 0
              /\ \E read \in 1..Min(BufSize, left) :
                    cur' = Some([f EXCEPT
                        !.pos = f.pos + read,
                        !.digest = Some(DigestUpdate(Unwrap(f.digest),
                                            SubSeq(f.content, f.pos + 1, f.pos + read)))])
              /\ UNCHANGED <<files, pc, stderr, exit>>
           \/ /\ left = 0
              /\ files' = Append(files,
                            FileAndHash(Unwrap(f.name), DigestFinish(Unwrap(f.digest))))
              /\ cur' = None
              /\ pc' = IF Len(files') < Len(args.files) THEN "mft_open" ELSE "build"
              /\ UNCHANGED <<stderr, exit>>
    /\ UNCHANGED <<input, prefixes, keys, timing, opened, product, fs>>

Next ==
    \/ FromArgs
    \/ KeyGenerate
    \/ KeyWritePrivate
    \/ KeyWritePublic
    \/ RunCreateSigner
    \/ GetKeyInfo
    \/ CertSubjectKey
    \/ ResolveValidityStep
    \/ ResolveUpdateStep
    \/ TaBuild
    \/ CertBuild
    \/ CrlBuild
    \/ RoaBuild
    \/ MftBuild
    \/ Sign
    \/ Save
    \/ TaTal
    \/ MftOpen
    \/ MftName
    \/ MftRead
    \/ MainExit

Spec == Init /\ [][Next]_vars

\* ------------------------------------------------------------------------
\* What the claims speak of.

\* The run has ended in failure.
FailedRun == pc = "exited" /\ exit # Some(0)
\* No output file exists.
NoOutput == \A p \in OutPaths : ~fs[p].exists
\* The lines on standard error other than the reports of files written.
Diagnostics == {i \in 1..Len(stderr) : stderr[i].kind # "report"}

MissingValidityEnd == ~IsSome(args.not_after) /\ ~IsSome(args.valid_days)
MissingUpdateEnd == ~IsSome(args.next_update) /\ ~IsSome(args.next_days)
\* Neither the end nor the day count of a timing pair the subcommand needs.
MissingEnd ==
    \/ cmd \in {"ta", "cer", "roa", "mft"} /\ MissingValidityEnd
    \/ cmd \in {"crl", "mft"} /\ MissingUpdateEnd

\* The run ended with the message of a missing end and status 1.
ConfigurationError ==
    /\ pc = "exited" /\ exit = Some(1)
    /\ Len(stderr) = 1
    /\ stderr[1].kind = "error"
    /\ stderr[1].text \in {<<"Either --not-after or --days must be given.">>,
                           <<"Either --next-update or --next-days must be given.">>}

\* The validity embedded in the object to be signed.
EmbeddedValidity ==
    IF cmd \in {"ta", "cer"} THEN Unwrap(tbs).validity
    ELSE Unwrap(tbs).envelope.validity

\* C1: for every issuance (ta, cer, roa, mft) that gets past validity
\* resolution, the validity embedded in the object has not_before <
\* not_after; likewise this_update < next_update for crl and mft.
C1_ValidityOrdered ==
    /\ cmd \in {"ta", "cer", "roa", "mft"} /\ IsSome(tbs) =>
            EmbeddedValidity.not_before < EmbeddedValidity.not_after
    /\ cmd \in {"crl", "mft"} /\ IsSome(tbs) =>
            Unwrap(tbs).this_update < Unwrap(tbs).next_update

\* The start of the validity: the explicit start, else the first reading of
\* the clock.
C2_ValidityStart ==
    IF IsSome(args.not_before) THEN Unwrap(args.not_before) ELSE nows[1]
\* The start of the update pair: the explicit start, else the last reading
\* of the clock.
C2_UpdateStart ==
    IF IsSome(args.this_update) THEN Unwrap(args.this_update) ELSE nows[Len(nows)]

\* C2: an explicit end time is the resolved end whatever the day count;
\* with the day count alone the end is start + days, the start being the
\* explicit start or the current time. This holds for the validity of ta,
\* cer, roa and mft and for the update pair of crl and mft, as resolved and
\* as embedded in the object.
C2_EndResolution ==
    /\ IsSome(validity) =>
        /\ Unwrap(validity).not_before = C2_ValidityStart
        /\ IsSome(args.not_after) =>
                Unwrap(validity).not_after = Unwrap(args.not_after)
        /\ ~IsSome(args.not_after) =>
                /\ IsSome(args.valid_days)
                /\ Unwrap(validity).not_after
                        = C2_ValidityStart + 24 * 60 * 60 * Unwrap(args.valid_days)
    /\ IsSome(update) =>
        /\ Unwrap(update).this_update = C2_UpdateStart
        /\ IsSome(args.next_update) =>
                Unwrap(update).next_update = Unwrap(args.next_update)
        /\ ~IsSome(args.next_update) =>
                /\ IsSome(args.next_days)
                /\ Unwrap(update).next_update
                        = C2_UpdateStart + 24 * 60 * 60 * Unwrap(args.next_days)
    /\ cmd \in {"ta", "cer", "roa", "mft"} /\ IsSome(tbs) =>
            EmbeddedValidity = Unwrap(validity)
    /\ cmd \in {"crl", "mft"} /\ IsSome(tbs) =>
            /\ Unwrap(tbs).this_update = Unwrap(update).this_update
            /\ Unwrap(tbs).next_update = Unwrap(update).next_update

\* C2 witness: a trust-anchor certificate was built from an explicit end
\* and a day count that would have given another end.
C2_Witness ==
    /\ cmd = "ta" /\ IsSome(tbs)
    /\ IsSome(args.not_after) /\ IsSome(args.valid_days)
    /\ Unwrap(args.not_after)
            # Unwrap(validity).not_before + 86400 * Unwrap(args.valid_days)
    /\ Unwrap(tbs).validity.not_after = Unwrap(args.not_after)

\* C3 as stated: an issuance that gives neither the end nor the day count
\* of a required timing pair ends in a configuration error, without the
\* signer having been invoked and without an output file.
C3_Original ==
    pc = "exited" /\ MissingEnd =>
        ConfigurationError /\ signCalls = 0 /\ NoOutput

\* Every step that precedes the resolution of the timing succeeded.
C3_ReachedTiming ==
    /\ IsSome(signer)
    /\ cmd \in {"ta", "cer", "crl"} => IsSome(key_pub)
    /\ cmd = "cer" => IsSome(subject_key)

\* C3 as amended: such an issuance ends in failure, without the signer
\* having been invoked and without an output file; the failure is the
\* configuration error whenever the steps before the timing resolution
\* (argument parsing, loading the signing key, its key info, the subject
\* key of cer) succeeded, and the failure of that earlier step otherwise.
C3_MissingEndFails ==
    /\ MissingEnd => signCalls = 0 /\ NoOutput /\ tbs = None /\ pc # "ret_ok"
    /\ pc = "exited" /\ MissingEnd =>
        /\ FailedRun
        /\ C3_ReachedTiming => ConfigurationError
        /\ ~C3_ReachedTiming => ~ConfigurationError /\ Cardinality(Diagnostics) = 1

\* C3 witness: a manifest run whose validity is given but whose next update
\* is not, ended in the configuration error.
C3_Witness ==
    /\ cmd = "mft" /\ ~MissingValidityEnd /\ MissingUpdateEnd
    /\ IsSome(signer) /\ IsSome(validity)
    /\ ConfigurationError /\ signCalls = 0 /\ NoOutput

\* The state the claim gives a family with this flag and this list.
C4_Family(inherit, blocks, r) ==
    /\ inherit => r = [tag |-> "Inherit"]
    /\ ~inherit /\ blocks # <<>> => r = [tag |-> "Explicit", blocks |-> blocks]
    /\ ~inherit /\ blocks = <<>> => r = [tag |-> "Absent"]

\* C4: in a CA certificate, for each family by itself: the inherit flag
\* gives Inherit whatever the list; no flag and a non-empty list give
\* Explicit with that list in its order; no flag and an empty list give
\* Absent.
C4_CertResources ==
    cmd = "cer" /\ IsSome(tbs) =>
        /\ C4_Family(args.inherit_v4, args.v4_resources, Unwrap(tbs).resources.v4)
        /\ C4_Family(args.inherit_v6, args.v6_resources, Unwrap(tbs).resources.v6)
        /\ C4_Family(args.inherit_as, args.as_resources, Unwrap(tbs).resources.as)

\* C4 witness: a CA certificate whose IPv4 family inherits although a list
\* was given, whose AS family carries two different blocks in the order
\* given, and whose IPv6 family is absent.
C4_Witness ==
    /\ cmd = "cer" /\ IsSome(bytes)
    /\ args.inherit_v4 /\ args.v4_resources # <<>>
    /\ ~args.inherit_as /\ args.as_resources = <<"64513", "64512">>
    /\ ~args.inherit_v6 /\ args.v6_resources = <<>>
    /\ Unwrap(tbs).resources
        = [v4 |-> Inherit, v6 |-> Absent, as |-> Explicit(<<"64513", "64512">>)]

\* C5: a run that ends in failure leaves no output file, created or partly
\* written, and a file that exists holds the complete bytes.
C5_NoPartialOutput ==
    /\ FailedRun => NoOutput
    /\ \A p \in OutPaths : fs[p].exists => fs[p].complete

\* C6: a failing run prints exactly one diagnostic before the process ends
\* with a non-zero status, on every failure path; a run that succeeds
\* prints none.
C6_OneDiagnostic ==
    /\ pc = "ret_err" => Cardinality(Diagnostics) = 1
    /\ pc = "ret_ok" => Cardinality(Diagnostics) = 0
    /\ pc = "exited" =>
        \/ exit = Some(0) /\ Cardinality(Diagnostics) = 0
        \/ exit \in {Some(1), Some(101)} /\ Cardinality(Diagnostics) = 1
    /\ pc \notin {"ret_err", "exited"} => Cardinality(Diagnostics) = 0

\* C6 witness: a CA run whose issuer key file could not be opened ended
\* with status 1 and the one line load_file printed.
C6_Witness ==
    /\ cmd = "cer" /\ pc = "exited" /\ exit = Some(1)
    /\ stderr = <<Msg("error", <<"Failed to open file", args.issuer_key>>)>>

\* The positions of c in s.
C7_At(s, c) == {i \in 1..Len(s) : s[i] = c}
C7_Least(S) == CHOOSE i \in S : \A j \in S : i <= j
\* The text before the first '-', and the text after it if there is one.
C7_Remainder(s) ==
    IF C7_At(s, "-") = {} THEN s ELSE SubSeq(s, 1, C7_Least(C7_At(s, "-")) - 1)
C7_MaxText(s) == SubSeq(s, C7_Least(C7_At(s, "-")) + 1, Len(s))
\* The parts of the remainder before and after its first '/'.
C7_Address(s) ==
    SubSeq(C7_Remainder(s), 1, C7_Least(C7_At(C7_Remainder(s), "/")) - 1)
C7_Length(s) ==
    SubSeq(C7_Remainder(s), C7_Least(C7_At(C7_Remainder(s), "/")) + 1,
           Len(C7_Remainder(s)))
\* The four reasons for which a prefix text is rejected.
C7_Rejected(s) ==
    \/ C7_At(C7_Remainder(s), "/") = {}
    \/ ~IsSome(IpAddrFromStr(C7_Address(s)))
    \/ ~IsSome(U8FromStr(C7_Length(s)))
    \/ C7_At(s, "-") # {} /\ ~IsSome(U8FromStr(C7_MaxText(s)))

\* C7: a ROA prefix text is rejected, with "Invalid ROA prefix '<input>'",
\* exactly when the part before the first '-' has no '/', its address part
\* is no IP literal, its length part is no u8, or there is a maximum length
\* part that is no u8; every other text gives the family of the address,
\* the length and the maximum length (or none), also when the maximum
\* length is below the length and when host bits are set.
C7_RoaPrefixParsing ==
    cmd = "roa" /\ pc # "from_args" =>
        LET texts == args.prefixes
            bad == {i \in 1..Len(texts) : C7_Rejected(texts[i])}
        IN  /\ bad # {} =>
                /\ pc = "exited" /\ exit = Some(1)
                /\ stderr = <<Msg("usage",
                        <<"Invalid ROA prefix '", texts[C7_Least(bad)], "'">>)>>
            /\ bad = {} =>
                /\ \A i \in 1..Len(stderr) : stderr[i].kind # "usage"
                /\ Len(prefixes) = Len(texts)
                /\ \A i \in 1..Len(texts) :
                    /\ prefixes[i].v4 = Unwrap(IpAddrFromStr(C7_Address(texts[i]))).v4
                    /\ prefixes[i].prefix.addr = Unwrap(IpAddrFromStr(C7_Address(texts[i])))
                    /\ prefixes[i].prefix.len = Unwrap(U8FromStr(C7_Length(texts[i])))
                    /\ prefixes[i].prefix.maxlen =
                            IF C7_At(texts[i], "-") = {} THEN None
                            ELSE U8FromStr(C7_MaxText(texts[i]))

\* C7 witness: "10.0.0.1/32-8" was parsed: IPv4, host bits set, length 32,
\* maximum length 8.
C7_Witness ==
    /\ cmd = "roa" /\ pc # "from_args"
    /\ args.prefixes = <<Txt10001 \o <<"/", "3", "2", "-", "8">>>>
    /\ prefixes = <<[v4 |-> TRUE,
                     prefix |-> [addr |-> [v4 |-> TRUE, bits |-> <<10, 0, 0, 1>>],
                                 len |-> 32, maxlen |-> <<8>>]]>>

\* The file-hash list of the manifest in the output file.
C8_Listed == fs[args.output].content.encoded.tbs.files

\* C8: in a successful manifest run the file-hash list has one entry per
\* input path, in the order of the paths; entry i has the final segment of
\* path i as its name and the digest of all that file i held.
C8_ManifestListing ==
    cmd = "mft" /\ pc = "exited" /\ exit = Some(0) =>
        /\ Len(C8_Listed) = Len(args.files)
        /\ Len(opened) = Len(args.files)
        /\ \A i \in 1..Len(args.files) :
            /\ opened[i].path = args.files[i]
            /\ C8_Listed[i].file = args.files[i][Len(args.files[i])]
            /\ C8_Listed[i].hash = [sha256_of |-> opened[i].content]

\* C8 witness: a manifest of dir/b and a, in this order, the first file
\* holding two bytes, was written.
C8_Witness ==
    /\ cmd = "mft" /\ pc = "exited" /\ exit = Some(0)
    /\ args.files = <<<<<<100>>, <<98>>>>, <<<<97>>>>>>
    /\ opened[1].content = <<7, 9>>
    /\ C8_Listed = <<[file |-> <<98>>, hash |-> [sha256_of |-> <<7, 9>>]],
                     [file |-> <<97>>, hash |-> [sha256_of |-> opened[2].content]]>>

\* The run printed that a manifest input file could not be opened, read or
\* named.
C9_FileFailure ==
    /\ Len(stderr) > 0
    /\ stderr[Len(stderr)].text[1]
        \in {"Cannot open file", "Cannot read file", "Illegal file name"}
\* The final segment of the path is missing or is not ASCII.
C9_BadName(path) ==
    \/ Len(path) = 0
    \/ path[Len(path)] \in {<<46, 46>>, <<46>>, <<47>>}
    \/ \E i \in 1..Len(path[Len(path)]) : path[Len(path)][i] >= 128

\* C9: in a manifest run the first input file that cannot be opened or
\* read, or whose final path segment is missing or not ASCII, aborts the
\* run: no later file is opened, no manifest content is built, the signer
\* is not invoked and no output file is created.
C9_FirstBadFileAborts ==
    cmd = "mft" =>
        /\ C9_FileFailure =>
            /\ pc \in {"ret_err", "exited"}
            /\ exit \in {None, Some(1)}
            /\ stderr[Len(stderr)].text[2] = args.files[Len(files) + 1]
            /\ Len(opened) <= Len(files) + 1
            /\ tbs = None /\ signCalls = 0 /\ NoOutput
        /\ \A i \in 1..Len(args.files) :
            C9_BadName(args.files[i]) =>
                /\ Len(files) < i /\ Len(opened) <= i
                /\ tbs = None /\ signCalls = 0 /\ NoOutput
                /\ pc # "ret_ok"

\* C9 witness: of the files a and (a name that is not ASCII), the first was
\* listed, the second opened and refused, and the run ended with status 1.
C9_Witness ==
    /\ cmd = "mft" /\ pc = "exited" /\ exit = Some(1)
    /\ args.files = <<<<<<97>>>>, <<<<195, 169>>>>>>
    /\ Len(files) = 1 /\ Len(opened) = 2
    /\ stderr = <<Msg("error", <<"Illegal file name", args.files[2]>>)>>
    /\ tbs = None /\ signCalls = 0 /\ NoOutput

\* The trust-anchor issuance `--v4 10.0.0.0/8 --as 64512` with 30 days.
C10_Example ==
    /\ cmd = "ta"
    /\ args.v4_resources = <<"10.0.0.0/8">> /\ args.as_resources = <<"64512">>
    /\ args.v6_resources = <<>>
    /\ args.not_after = None /\ args.valid_days = Some(30)
C10_Resources ==
    IsSome(tbs) =>
        Unwrap(tbs).resources
            = [v4 |-> [tag |-> "Explicit", blocks |-> <<"10.0.0.0/8">>],
               v6 |-> [tag |-> "Absent"],
               as |-> [tag |-> "Explicit", blocks |-> <<"64512">>]]
C10_KeyLine == [base64 |-> [info_of |-> [public_of |-> [key |-> args.key]]]]
C10_TalWritten == IsSome(args.output_tal) /\ fs["tal"].exists /\ fs["tal"].complete

\* C10 as stated: the example issuance gives IPv4 Explicit([10.0.0.0/8]),
\* AS Explicit([64512]), IPv6 Absent, and a TAL with the rsync URI on line 1
\* and the base64 key info on line 4.
C10_Original ==
    C10_Example =>
        /\ C10_Resources
        /\ C10_TalWritten =>
            /\ fs["tal"].content[1] = args.tal_rsync_uri
            /\ Len(fs["tal"].content) >= 4
            /\ fs["tal"].content[4] = C10_KeyLine

\* C10 as amended: the same certificate; the TAL has the rsync URI on line
\* 1, a blank line before its last line, and the base64 key info on its
\* last line, which is line 4 when an HTTPS URI was given and line 3 when
\* none was.
C10_ExampleTa ==
    C10_Example =>
        /\ C10_Resources
        /\ C10_TalWritten =>
            LET tal == fs["tal"].content
                n == IF IsSome(args.tal_https_uri) THEN 4 ELSE 3
            IN  /\ Len(tal) = n
                /\ tal[1] = args.tal_rsync_uri
                /\ IsSome(args.tal_https_uri) => tal[2] = Unwrap(args.tal_https_uri)
                /\ tal[n - 1] = ""
                /\ tal[n] = C10_KeyLine

\* C10 witness: the example issuance without an HTTPS URI wrote its TAL,
\* three lines long.
C10_Witness ==
    /\ C10_Example /\ C10_TalWritten
    /\ ~IsSome(args.tal_https_uri)
    /\ Len(fs["tal"].content) = 3
    /\ pc = "exited" /\ exit = Some(0)

\* The public key of the key file the subcommand signs with.
C11_SignerPub == [public_of |-> [key |-> IF cmd = "ta" THEN args.key ELSE args.issuer_key]]
\* The public key of the subject key file of cer.
C11_SubjectPub == [public_of |-> [key |-> args.subject_key]]
\* The resource families of the certificate that are in the Inherit state.
C11_Inherited == {f \in {"v4", "v6", "as"} : Unwrap(tbs).resources[f].tag = "Inherit"}

\* C11: every trust-anchor certificate built has its issuer name and its
\* authority key identifier derived from its own subject key, no CRL URI
\* and no CA-issuer URI, the CA-repository and manifest URIs, the RRDP
\* notify URI exactly when one was given, overclaim Refuse, and no resource
\* family in the Inherit state; every CA certificate built has its issuer
\* name and its authority key identifier derived from the issuer key, which
\* is not its subject key, the CRL, CA-issuer, CA-repository and manifest
\* URIs, the notify URI exactly when one was given, and overclaim Trim when
\* trimming was asked for and Refuse otherwise.
C11_CertProfile ==
    /\ cmd = "ta" /\ IsSome(tbs) =>
        LET cert == Unwrap(tbs)
        IN  /\ cert.subject_key = C11_SignerPub
            /\ cert.issuer = [name_of |-> cert.subject_key]
            /\ cert.authority_key_identifier = <<[ki_of |-> cert.subject_key]>>
            /\ cert.crl_uri = <<>> /\ cert.ca_issuer = <<>>
            /\ cert.ca_repository = <<args.ca_repository>>
            /\ cert.rpki_manifest = <<args.rpki_manifest>>
            /\ cert.rpki_notify = args.rpki_notify
            /\ cert.overclaim = "Refuse"
            /\ C11_Inherited = {}
    /\ cmd = "cer" /\ IsSome(tbs) =>
        LET cert == Unwrap(tbs)
        IN  /\ cert.subject_key = C11_SubjectPub
            /\ cert.issuer = [name_of |-> C11_SignerPub]
            /\ cert.authority_key_identifier = <<[ki_of |-> C11_SignerPub]>>
            /\ cert.crl_uri = <<args.crl_uri>>
            /\ cert.ca_issuer = <<args.ca_issuer>>
            /\ cert.ca_repository = <<args.ca_repository>>
            /\ cert.rpki_manifest = <<args.rpki_manifest>>
            /\ cert.rpki_notify = args.rpki_notify
            /\ cert.overclaim = (IF args.trim_resources THEN "Trim" ELSE "Refuse")
            /\ cert.overclaim \in {"Trim", "Refuse"}

\* C11 witness: a CA certificate with trimming asked for and a notify URI
\* given was built, signed by the issuer key and saved.
C11_Witness ==
    /\ cmd = "cer" /\ pc = "exited" /\ exit = Some(0)
    /\ args.trim_resources /\ IsSome(args.rpki_notify)
    /\ IsSome(tbs)
    /\ Unwrap(tbs).overclaim = "Trim"
    /\ Unwrap(tbs).issuer # [name_of |-> Unwrap(tbs).subject_key]
    /\ fs["out"].exists /\ fs["out"].complete

\* The key material is loaded: the signing key, its public key info in ta,
\* cer and crl, and the subject key in cer.
C12_KeysLoaded ==
    /\ IsSome(signer)
    /\ cmd \in {"ta", "cer", "crl"} => IsSome(key_pub)
    /\ cmd = "cer" => IsSome(subject_key)
\* The lines of a timing that cannot be resolved.
C12_TimingMessages ==
    {Msg("error", <<"Either --not-after or --days must be given.">>),
     Msg("error", <<"Either --next-update or --next-days must be given.">>)}
\* The resolution of the timing has begun: the clock was read, a pair was
\* resolved, or a pair was reported as not resolvable.
C12_TimingStarted ==
    \/ nows # <<>> \/ IsSome(validity) \/ IsSome(update)
    \/ \E i \in 1..Len(stderr) : stderr[i] \in C12_TimingMessages
\* Every timing pair the subcommand needs is resolved.
C12_TimingResolved ==
    /\ cmd \in {"ta", "cer", "roa", "mft"} => IsSome(validity)
    /\ cmd \in {"crl", "mft"} => IsSome(update)
\* The steps from the building of the object on, in their order: the object
\* is built once the timing is resolved and every file listed; the signer is
\* invoked, once, on the object built; what is encoded is what was signed;
\* what is written is what was encoded; the TAL follows the certificate.
C12_BuildSignEncodePersist ==
    /\ opened # <<>> => C12_TimingResolved
    /\ IsSome(tbs) =>
            C12_TimingResolved /\ Len(files) = Len(args.files) /\ cur = None
    /\ signCalls > 0 => IsSome(tbs) /\ signCalls = 1
    /\ IsSome(bytes) =>
            signCalls = 1 /\ bytes = <<[encoded |-> [tbs |-> Unwrap(tbs),
                                                       signed_by |-> Unwrap(signer)]]>>
    /\ fs[args.output].exists =>
            IsSome(bytes) /\ fs[args.output].content = Unwrap(bytes)
    /\ fs["tal"].exists => fs[args.output].exists /\ fs[args.output].complete

\* C12 as stated: in every run the timing is resolved before the identity
\* and the resources are, so the subject key of cer is not there before the
\* validity is; then come the signing, the encoding and the writing; and a
\* run with no end of its timing and a subject key that does not load
\* reports the timing, the earliest step.
C12_Original ==
    cmd # "key" =>
        /\ IsSome(subject_key) => C12_TimingResolved
        /\ C12_BuildSignEncodePersist
        /\ FailedRun /\ MissingEnd =>
                \A i \in 1..Len(stderr) :
                    stderr[i].text[1] # "Failed to load subject public key"

\* C12 as amended: in every run of ta, cer, crl, roa and mft the key material
\* is loaded first (the signing key, its public key info in ta, cer and crl,
\* the subject key in cer), then the timing is resolved (the validity before
\* the update times in mft), then the manifest files are listed and the
\* object is built, then the signer is invoked, then the result is encoded,
\* then the bytes are written; no step begins before the one before it has
\* succeeded, so a run whose key material does not load never reports the
\* timing, and a run without the end of its timing opens no manifest file,
\* builds nothing and signs nothing.
C12_PipelineOrder ==
    cmd # "key" =>
        /\ C12_TimingStarted => C12_KeysLoaded
        /\ IsSome(update) /\ cmd = "mft" => IsSome(validity)
        /\ C12_BuildSignEncodePersist
        /\ MissingEnd => opened = <<>> /\ tbs = None /\ signCalls = 0
        /\ FailedRun /\ ~C12_KeysLoaded =>
                \A i \in 1..Len(stderr) : stderr[i] \notin C12_TimingMessages

\* C12 witness: a cer run that gave neither the end nor the day count of its
\* validity, and no start, ended with the failure of its subject key; the
\* clock was never read and the timing never reported.
C12_Witness ==
    /\ cmd = "cer" /\ pc = "exited" /\ exit = Some(1)
    /\ MissingEnd /\ args.not_before = None
    /\ IsSome(signer) /\ IsSome(key_pub) /\ subject_key = None
    /\ stderr = <<Msg("error", <<"Failed to load subject public key">>)>>
    /\ nows = <<>> /\ validity = None

\* The last line on standard error starts with `what`.
C13_Reported(what) == Len(stderr) > 0 /\ stderr[Len(stderr)].text[1] = what
\* The name the file at path is listed under, if it has one.
C13_NameOf(path) ==
    IF Len(path) = 0 THEN <<>>
    ELSE LET last == path[Len(path)]
         IN  IF \/ last \in {<<46, 46>>, <<46>>, <<47>>}
                \/ \E i \in 1..Len(last) : last[i] >= 128
             THEN <<>> ELSE <<last>>
\* Nothing of the open file has been read, and no digest begun.
C13_Unread == Unwrap(cur).pos = 0 /\ Unwrap(cur).digest = <<>>
\* The open file has been read to its end through the digest.
C13_ReadToEnd ==
    /\ Unwrap(cur).pos = Len(Unwrap(cur).content)
    /\ Unwrap(cur).digest = <<Unwrap(cur).content>>

\* C13 as stated: a file is read to completion before its name is derived
\* and checked, so whenever the name step is reached or a name has been
\* refused the file has been read to its end, and while the file is being
\* read no name has been derived.
C13_Original ==
    cmd = "mft" /\ IsSome(cur) =>
        /\ pc = "mft_name" => C13_ReadToEnd
        /\ C13_Reported("Illegal file name") => C13_ReadToEnd
        /\ pc = "mft_read" => Unwrap(cur).name = <<>>

\* C13 as amended: for each manifest input file the steps run in the order
\* open the file, derive the name from the final path segment and require
\* it to be ASCII, read the file to completion through the digest, append
\* (name, digest). A file that cannot be opened is reported as such whatever
\* its name, with neither name check nor read; a file that opens and has no
\* ASCII name is reported as an illegal file name and nothing of it is read;
\* a failing read is reported only of a file whose name was accepted.
C13_FileSteps ==
    cmd = "mft" =>
        /\ Len(files) <= Len(opened) /\ Len(opened) <= Len(files) + 1
        /\ \A i \in 1..Len(opened) : opened[i].path = args.files[i]
        /\ \A i \in 1..Len(files) :
                files[i] = [file |-> C13_NameOf(args.files[i])[1],
                            hash |-> [sha256_of |-> opened[i].content]]
        /\ C13_Reported("Cannot open file") =>
                cur = <<>> /\ Len(opened) = Len(files)
        /\ IsSome(cur) =>
            LET f == Unwrap(cur)
            IN  /\ Len(opened) = Len(files) + 1
                /\ f.path = opened[Len(opened)].path
                /\ f.content = opened[Len(opened)].content
                /\ pc = "mft_name" => f.name = <<>> /\ C13_Unread
                /\ C13_NameOf(f.path) = <<>> =>
                        /\ pc \in {"mft_name", "ret_err", "exited"}
                        /\ f.name = <<>> /\ C13_Unread
                /\ C13_Reported("Illegal file name") =>
                        C13_NameOf(f.path) = <<>> /\ C13_Unread
                /\ pc = "mft_read" \/ C13_Reported("Cannot read file") =>
                        /\ f.name = C13_NameOf(f.path) /\ f.name # <<>>
                        /\ f.digest = <<SubSeq(f.content, 1, f.pos)>>

\* C13 witness: the one file of the manifest, with a name that is not ASCII
\* and two bytes to read, was opened and refused for its name; nothing of
\* it was read, and the run ended with status 1.
C13_Witness ==
    /\ cmd = "mft" /\ pc = "exited" /\ exit = Some(1)
    /\ args.files = <<<<<<195, 169>>>>>>
    /\ opened = <<[path |-> args.files[1], content |-> <<7, 9>>]>>
    /\ stderr = <<Msg("error", <<"Illegal file name", args.files[1]>>)>>
    /\ IsSome(cur) /\ C13_Unread
    /\ files = <<>>
====
